---- MODULE Spec2Model ----
(* Verification model of TrendRadar's report aggregators:                  *)
(*   trendradar/report/hot_events.py   (_normalize_title, build_hot_events) *)
(*   trendradar/report/douyin_focus.py (_extract_rank_points,               *)
(*                                      _calc_rising_metrics,               *)
(*                                      build_douyin_focus)                 *)
(*   trendradar/utils/shorturl.py      (shorten_url, clear_cache)           *)
(*   trendradar/report/formatter.py    (set_shorturl_config, get_short_url) *)
(* Strings are sequences of one-character strings.                          *)
EXTENDS Integers, Sequences, FiniteSets, TLC

VARIABLES
    cleaner,        \* which behaviour the imported clean_title helper has
    title,          \* SpecNorm: the raw title handed to _normalize_title
    key1,           \* SpecNorm: _normalize_title(title), or None before the call
    key2,           \* SpecNorm: _normalize_title(key1), or None before the call
    points,         \* SpecMetrics: the rank points handed to _calc_rising_metrics
    window_points,  \* SpecMetrics: its window_points argument
    metrics,        \* SpecMetrics: the returned dict, or NoMetrics before the call
    title_info,     \* the snapshot {platform_id: {title: meta}} the aggregators read
    focus_args,     \* SpecFocus: the keyword arguments of build_douyin_focus
    focus_result,   \* SpecFocus: how the call ended, or NotCalled
    hot_args,       \* SpecHot: the keyword arguments of build_hot_events
    hot_result,     \* SpecHot: [called, events], the list the call returned
    _url_cache,     \* SpecShort: shorturl._url_cache, a dict {cache_key: short_url}
    _shorturl_config,   \* SpecShort: formatter._shorturl_config
    short_call      \* SpecShort: the last call, its arguments and how it ended

normVars == <<title, key1, key2>>
metricVars == <<points, window_points, metrics>>
focusVars == <<focus_args, focus_result>>
hotVars == <<hot_args, hot_result>>
shortVars == <<_url_cache, _shorturl_config, short_call>>
vars == <<cleaner, normVars, metricVars, title_info, focusVars, hotVars, shortVars>>

None == "None"

-----------------------------------------------------------------------------
(* Bounds *)

\* longest raw title handed to _normalize_title in SpecNorm
MaxTitleLen == 4

\* longest rank series handed to _calc_rising_metrics in SpecMetrics
MaxPoints == 4

\* largest rank value in a rank series of SpecMetrics
MaxRank == 3

\* largest window_points argument in SpecMetrics (the smallest is -1)
MaxWindow == 4

\* most titles of the platform in SpecFocus: in the snapshots that vary the
\* rank series, in those that vary the shape of the metadata, and in those
\* that vary the titles and the keyword configuration
MaxRankTitles == 3

MaxDataTitles == 2

MaxFilterTitles == 2

\* most sightings (platform, title) of a snapshot in SpecHot: in the snapshots
\* that vary the titles and the platforms, and in those that vary the ranks
MaxClusterSightings == 3

MaxRankSightings == 2

\* most entries of _url_cache in SpecShort: a call that would store one more
\* is not made
MaxCached == 2

-----------------------------------------------------------------------------
(* Characters and the str / re primitives _normalize_title uses *)

\* "-" stands for every character of _PUNCT_RE's class, "A" for a cased
\* letter, " " and "\t" for the characters \s matches.
Alphabet == {"a", "A", " ", "\t", "-"}

IsSpace(c) == c \in {" ", "\t"}

IsPunct(c) == c = "-"

LowerChar(c) == IF c = "A" THEN "a" ELSE c

RECURSIVE LStrip(_)
LStrip(s) ==
    IF s = <<>> THEN <<>>
    ELSE IF IsSpace(Head(s)) THEN LStrip(Tail(s)) ELSE s

RECURSIVE RStrip(_)
RStrip(s) ==
    IF s = <<>> THEN <<>>
    ELSE IF IsSpace(s[Len(s)]) THEN RStrip(SubSeq(s, 1, Len(s) - 1)) ELSE s

\* str.strip()
Strip(s) == RStrip(LStrip(s))

\* str.lower()
Lower(s) == [i \in 1..Len(s) |-> LowerChar(s[i])]

\* _SPACE_RE.sub(" ", s): every maximal run of whitespace becomes one " "
RECURSIVE SpaceSub(_)
SpaceSub(s) ==
    IF s = <<>> THEN <<>>
    ELSE IF IsSpace(Head(s))
         THEN <<" ">> \o SpaceSub(LStrip(Tail(s)))
         ELSE <<Head(s)>> \o SpaceSub(Tail(s))

\* _PUNCT_RE.sub("", s): every punctuation character is deleted
RECURSIVE PunctSub(_)
PunctSub(s) ==
    IF s = <<>> THEN <<>>
    ELSE IF IsPunct(Head(s))
         THEN PunctSub(Tail(s))
         ELSE <<Head(s)>> \o PunctSub(Tail(s))

\* The behaviours considered for trendradar.report.helpers.clean_title:
\* the identity, and a cleaner that collapses whitespace and trims.
CleanerModes == {"identity", "collapse"}

clean_title(mode, s) ==
    IF mode = "collapse" THEN Strip(SpaceSub(s)) ELSE s

_normalize_title(mode, s) ==
    PunctSub(SpaceSub(Lower(Strip(clean_title(mode, s)))))

-----------------------------------------------------------------------------
(* douyin_focus.py: rank-series helpers *)

Min(a, b) == IF a < b THEN a ELSE b

Max(a, b) == IF a > b THEN a ELSE b

\* Python's seq[-n:] for n > 0: the last n elements, all of them when n >= len
LastN(seq, n) == SubSeq(seq, Max(Len(seq) - n, 0) + 1, Len(seq))

\* Python's seq[:n] for n >= 0: the first n elements
FirstN(seq, n) == SubSeq(seq, 1, Min(n, Len(seq)))

\* the loop of lines 62-64: count the i in 1..len-1 with window[i] < window[i-1]
RECURSIVE ImproveSteps(_, _)
ImproveSteps(window, i) ==
    IF i > Len(window) THEN 0
    ELSE (IF window[i] < window[i - 1] THEN 1 ELSE 0) + ImproveSteps(window, i + 1)

\* the same loop counting a tie as an improving step
RECURSIVE ImproveStepsTies(_, _)
ImproveStepsTies(window, i) ==
    IF i > Len(window) THEN 0
    ELSE (IF window[i] <= window[i - 1] THEN 1 ELSE 0) + ImproveStepsTies(window, i + 1)

\* A variant that takes the window from the front of the series and counts ties.
CalcRisingMetricsFront(pts, w) ==
    IF pts = <<>> THEN [total_improve |-> 0, improve_steps |-> 0, window_used |-> 0]
    ELSE LET window == IF w > 0 THEN FirstN(pts, w) ELSE pts IN
         IF Len(window) < 2
         THEN [total_improve |-> 0, improve_steps |-> 0, window_used |-> Len(window)]
         ELSE [total_improve |-> window[1] - window[Len(window)],
               improve_steps |-> ImproveStepsTies(window, 2),
               window_used |-> Len(window)]

_calc_rising_metrics(pts, w) ==
    IF pts = <<>> THEN [total_improve |-> 0, improve_steps |-> 0, window_used |-> 0]
    ELSE LET window == IF w > 0 THEN LastN(pts, w) ELSE pts IN
         IF Len(window) < 2
         THEN [total_improve |-> 0, improve_steps |-> 0, window_used |-> Len(window)]
         ELSE [total_improve |-> window[1] - window[Len(window)],
               improve_steps |-> ImproveSteps(window, 2),
               window_used |-> Len(window)]

-----------------------------------------------------------------------------
(* The snapshot both aggregators read: title_info = {platform_id: {title: meta}} *)
(* A dict is the sequence of its items in iteration (insertion) order.          *)
(* A TitleMeta is a record; an absent field and an empty one read the same      *)
(* through meta.get(..) or <empty>, so an absent field is held as empty.        *)

\* meta is None
NullMeta == [null |-> TRUE]

\* a rank value that is an int, a str, or None
IntVal(n) == [int |-> n]

StrVal(s) == [str |-> s]

NoneVal == [none |-> TRUE]

\* a rank_timeline entry that is a mapping with a rank, a mapping without one,
\* and an entry that is no mapping at all (it has no .get)
RankEntry(v) == [rank |-> v]

NoRankEntry == [time |-> "t1"]

NotAMapping == [not_a_mapping |-> TRUE]

Meta(lt, tl, rk, u, mu, mu2) ==
    [last_time |-> lt, rank_timeline |-> tl, ranks |-> rk,
     url |-> u, mobileUrl |-> mu, mobile_url |-> mu2]

EmptyMeta == Meta("", <<>>, <<>>, "", "", "")

\* meta or {}
MetaOrEmpty(meta) == IF meta = NullMeta THEN EmptyMeta ELSE meta

\* int(v): [ok, v]; a str parses when it spells a number
DigitStrings == {"1", "2", "3"}

IntOfDigits(s) == CASE s = "1" -> 1 [] s = "2" -> 2 [] OTHER -> 3

ParseInt(v) ==
    IF "int" \in DOMAIN v THEN [ok |-> TRUE, v |-> v.int]
    ELSE IF "str" \in DOMAIN v /\ v.str \in DigitStrings
         THEN [ok |-> TRUE, v |-> IntOfDigits(v.str)]
         ELSE [ok |-> FALSE, v |-> 0]

\* a > b on the last_time strings, which compare in the order of TimeOrder
TimeOrder == <<"t1", "t2">>

TimeIndex(t) == CHOOSE i \in 1..Len(TimeOrder) : TimeOrder[i] = t

TimeGreater(a, b) == TimeIndex(a) > TimeIndex(b)

\* title_info.get(pid): the platform's titles, <<>> when the platform is absent
HasPlatform(ti, pid) == \E i \in 1..Len(ti) : ti[i].pid = pid

TitlesOf(ti, pid) ==
    IF HasPlatform(ti, pid)
    THEN ti[CHOOSE i \in 1..Len(ti) : ti[i].pid = pid].titles
    ELSE <<>>

\* id_to_name.get(pid, pid)
NameOf(id_to_name, pid) ==
    IF pid \in DOMAIN id_to_name THEN id_to_name[pid] ELSE pid

\* k in title, for strings as character sequences
Contains(t, k) ==
    \E i \in 0..(Len(t) - Len(k)) : SubSeq(t, i + 1, i + Len(k)) = k

\* any(k in title for k in keywords)
ContainsAny(t, keywords) == \E i \in 1..Len(keywords) : Contains(t, keywords[i])

-----------------------------------------------------------------------------
(* douyin_focus.py *)

Raised == [status |-> "raised"]

Ok(v) == [status |-> "ok", value |-> v]

\* _get_latest_time: meta.get fails on a None meta
RECURSIVE GetLatestFrom(_, _)
GetLatestFrom(titles, latest) ==
    IF titles = <<>> THEN Ok(latest)
    ELSE LET meta == Head(titles).meta IN
         IF meta = NullMeta THEN Raised
         ELSE LET lt == meta.last_time IN
              IF lt # "" /\ (latest = "" \/ TimeGreater(lt, latest))
              THEN GetLatestFrom(Tail(titles), lt)
              ELSE GetLatestFrom(Tail(titles), latest)

_get_latest_time(ti, pid) == GetLatestFrom(TitlesOf(ti, pid), "")

\* _extract_rank_points, lines 24-31: p.get fails on an entry that is no mapping
RECURSIVE TimelinePoints(_, _)
TimelinePoints(tl, acc) ==
    IF tl = <<>> THEN Ok(acc)
    ELSE LET p == Head(tl) IN
         IF p = NotAMapping THEN Raised
         ELSE IF "rank" \notin DOMAIN p \/ p.rank = NoneVal
              THEN TimelinePoints(Tail(tl), acc)
              ELSE LET r == ParseInt(p.rank) IN
                   TimelinePoints(Tail(tl), IF r.ok THEN Append(acc, r.v) ELSE acc)

\* _extract_rank_points, lines 33-38
RECURSIVE LegacyPoints(_, _)
LegacyPoints(rk, acc) ==
    IF rk = <<>> THEN acc
    ELSE LET r == ParseInt(Head(rk)) IN
         LegacyPoints(Tail(rk), IF r.ok THEN Append(acc, r.v) ELSE acc)

_extract_rank_points(meta) ==
    LET tp == TimelinePoints(meta.rank_timeline, <<>>) IN
    IF tp = Raised THEN Raised
    ELSE IF tp.value # <<>> THEN tp
         ELSE Ok(LegacyPoints(meta.ranks, <<>>))

\* "→".join(str(p) for p in points[-max_points:])
RECURSIVE Join(_)
Join(ps) ==
    IF ps = <<>> THEN <<>>
    ELSE IF Len(ps) = 1 THEN <<ToString(Head(ps))>>
         ELSE <<ToString(Head(ps)), "->">> \o Join(Tail(ps))

\* points[-n:] for any int n: n = 0 gives everything, n < 0 drops the first -n
PyTail(seq, n) ==
    IF n > 0 THEN LastN(seq, n)
    ELSE SubSeq(seq, Min(0 - n, Len(seq)) + 1, Len(seq))

_format_trend(pts, max_points) ==
    IF pts = <<>> THEN <<>> ELSE Join(PyTail(pts, max_points))

\* [str(k) for k in (keywords or []) if k is not None and str(k).strip()]
RECURSIVE CleanKeywords(_)
CleanKeywords(ks) ==
    IF ks = <<>> THEN <<>>
    ELSE IF Strip(Head(ks)) # <<>>
         THEN <<Head(ks)>> \o CleanKeywords(Tail(ks))
         ELSE CleanKeywords(Tail(ks))

\* The injected matches_word_groups_func: a title matches when it carries a
\* word of some group and no filter word or global filter.
matches_word_groups_func(t, word_groups, filter_words, global_filters) ==
    /\ ContainsAny(t, word_groups)
    /\ ~ContainsAny(t, filter_words)
    /\ ~ContainsAny(t, global_filters)

\* lines 100-102: the configuration is loaded only with both callables
\* supplied; word_groups_is_none tells whether word_groups is None, as it is
\* before the load and when the loader returns None for it
NoConfig == [loaded |-> FALSE, word_groups_is_none |-> TRUE,
             word_groups |-> <<>>, filter_words |-> <<>>,
             global_filters |-> <<>>]

LoadedConfig(a) ==
    IF a.has_matcher /\ a.has_loader
    THEN [loaded |-> TRUE,
          word_groups_is_none |-> a.config.word_groups_is_none,
          word_groups |-> a.config.word_groups,
          filter_words |-> a.config.filter_words,
          global_filters |-> a.config.global_filters]
    ELSE NoConfig

\* a or b on strings
StrOr(a, b) == IF a # "" THEN a ELSE b

\* tuple comparison of sort keys
RECURSIVE KeyLess(_, _)
KeyLess(k1, k2) ==
    IF k1 = <<>> \/ k2 = <<>> THEN FALSE
    ELSE IF Head(k1) < Head(k2) THEN TRUE
         ELSE IF Head(k1) > Head(k2) THEN FALSE
              ELSE KeyLess(Tail(k1), Tail(k2))

\* list.sort(key=...): stable, ascending; the elements are [k: key, x: item]
RECURSIVE InsertByKey(_, _)
InsertByKey(sorted, e) ==
    IF sorted = <<>> THEN <<e>>
    ELSE IF KeyLess(e.k, Head(sorted).k) THEN <<e>> \o sorted
         ELSE <<Head(sorted)>> \o InsertByKey(Tail(sorted), e)

RECURSIVE SortPairs(_, _)
SortPairs(rest, acc) ==
    IF rest = <<>> THEN acc
    ELSE SortPairs(Tail(rest), InsertByKey(acc, Head(rest)))

Unkeyed(pairs) == [i \in 1..Len(pairs) |-> pairs[i].x]

\* line 173: hot_items.sort(key=rank)
SortHot(items) ==
    Unkeyed(SortPairs([i \in 1..Len(items) |->
                          [k |-> <<items[i].rank>>, x |-> items[i]]], <<>>))

\* A variant that sorts the rising list by rank alone.
SortRisingByRank(items) == SortHot(items)

\* line 174: rising_items.sort(key=(-delta, rank))
SortRising(items) ==
    Unkeyed(SortPairs([i \in 1..Len(items) |->
                          [k |-> <<0 - items[i].delta, items[i].rank>>,
                           x |-> items[i]]], <<>>))

\* A variant that keeps the tail of the list: items[-n:].
TruncateTail(items, n) == IF n > 0 THEN LastN(items, n) ELSE items

\* lines 179-180: items[: n if n > 0 else len(items)]
Truncate(items, n) == IF n > 0 THEN FirstN(items, n) ELSE items

\* lines 140-154: the FocusItem of a title with usable rank points
FocusItem(t, meta, pts, a) ==
    LET current_rank == pts[Len(pts)]
        delta == IF Len(pts) >= 2 THEN pts[Len(pts) - 1] - current_rank ELSE 0
        m == _calc_rising_metrics(pts, a.rising_window_points)
    IN [title |-> t,
        url |-> meta.url,
        mobile_url |-> StrOr(meta.mobileUrl, meta.mobile_url),
        rank |-> current_rank,
        delta |-> delta,
        trend |-> _format_trend(pts, a.trend_points),
        total_improve |-> m.total_improve,
        improve_steps |-> m.improve_steps,
        window_used |-> m.window_used]

\* lines 157-163
IsRising(item, a) ==
    \/ item.delta >= a.min_rank_improve
    \/ /\ item.total_improve >= a.min_total_improve
       /\ item.improve_steps >= a.min_consecutive_improve

\* A variant that ignores require_latest_only.
PassesFiltersAnyTime(t, meta, a, cfg, latest, require_keyword_match, require_latest_only) ==
    LET extra == CleanKeywords(a.extra_keywords)
        must == CleanKeywords(a.must_keywords)
    IN /\ ~(cfg.global_filters # <<>> /\ ContainsAny(t, cfg.global_filters))
       /\ ~(must # <<>> /\ ~ContainsAny(t, must))
       /\ ~(/\ require_keyword_match /\ a.has_matcher
            /\ ~cfg.word_groups_is_none
            /\ ~matches_word_groups_func(t, cfg.word_groups, cfg.filter_words,
                                         cfg.global_filters)
            /\ (extra = <<>> \/ ~ContainsAny(t, extra)))

\* lines 112-130: the filters a title passes before its ranks are read
PassesFilters(t, meta, a, cfg, latest, require_keyword_match, require_latest_only) ==
    LET extra == CleanKeywords(a.extra_keywords)
        must == CleanKeywords(a.must_keywords)
    IN /\ ~(require_latest_only /\ meta.last_time # latest)
       /\ ~(cfg.global_filters # <<>> /\ ContainsAny(t, cfg.global_filters))
       /\ ~(must # <<>> /\ ~ContainsAny(t, must))
       /\ ~(/\ require_keyword_match /\ a.has_matcher
            /\ ~cfg.word_groups_is_none
            /\ ~matches_word_groups_func(t, cfg.word_groups, cfg.filter_words,
                                         cfg.global_filters)
            /\ (extra = <<>> \/ ~ContainsAny(t, extra)))

\* collect_items, lines 106-166: [status, hot, rising]
RECURSIVE CollectFrom(_, _, _, _, _, _, _, _)
CollectFrom(titles, a, cfg, latest, rkm, rlo, hot, rising) ==
    IF titles = <<>> THEN [status |-> "ok", hot |-> hot, rising |-> rising]
    ELSE LET t == Head(titles).title
             meta == MetaOrEmpty(Head(titles).meta)
             rest == Tail(titles)
         IN IF ~PassesFilters(t, meta, a, cfg, latest, rkm, rlo)
            THEN CollectFrom(rest, a, cfg, latest, rkm, rlo, hot, rising)
            ELSE LET ex == _extract_rank_points(meta) IN
                 IF ex = Raised THEN Raised
                 ELSE IF ex.value = <<>>
                      THEN CollectFrom(rest, a, cfg, latest, rkm, rlo, hot, rising)
                      ELSE LET pts == ex.value
                               current_rank == pts[Len(pts)]
                               item == FocusItem(t, meta, pts, a)
                           IN IF current_rank <= 0 \/ current_rank > a.max_rank
                              THEN CollectFrom(rest, a, cfg, latest, rkm, rlo,
                                               hot, rising)
                              ELSE CollectFrom(rest, a, cfg, latest, rkm, rlo,
                                               Append(hot, item),
                                               IF IsRising(item, a)
                                               THEN Append(rising, item)
                                               ELSE rising)

collect_items(ti, a, cfg, latest, require_keyword_match, require_latest_only) ==
    CollectFrom(TitlesOf(ti, a.platform_id), a, cfg, latest,
                require_keyword_match, require_latest_only, <<>>, <<>>)

\* what a call ends in: an exception, the empty dict, or a FocusResult
FocusRaised == [status |-> "raised"]

FocusEmpty == [status |-> "returned", empty |-> TRUE]

FocusResult(a, pass, c) ==
    LET hot == SortHot(c.hot)
        rising == SortRising(c.rising)
    IN [status |-> "returned", empty |-> FALSE,
        pass |-> pass,
        platform_id |-> a.platform_id,
        platform_name |-> NameOf(a.id_to_name, a.platform_id),
        hot |-> Truncate(hot, a.max_hot_items),
        rising |-> Truncate(rising, a.max_rising_items)]

build_douyin_focus(ti, a) ==
    IF ti = <<>> \/ ~HasPlatform(ti, a.platform_id) THEN FocusEmpty
    ELSE LET lt == _get_latest_time(ti, a.platform_id) IN
         IF lt = Raised THEN FocusRaised
         ELSE IF lt.value = "" THEN FocusEmpty
              ELSE LET cfg == LoadedConfig(a)
                       strict == collect_items(ti, a, cfg, lt.value, TRUE, TRUE)
                   IN IF strict = Raised THEN FocusRaised
                      ELSE IF a.allow_unfiltered_hot /\ strict.hot = <<>>
                           THEN LET relaxed ==
                                        collect_items(ti, a, cfg, lt.value,
                                                      FALSE, FALSE)
                                IN IF relaxed = Raised THEN FocusRaised
                                   ELSE FocusResult(a, "relaxed", relaxed)
                           ELSE FocusResult(a, "strict", strict)

-----------------------------------------------------------------------------
(* hot_events.py: build_hot_events *)

\* the best_rank of a group no sighting of which has a defined rank
UnknownRank == 9999

\* lines 53-58: the latest last_time of the whole snapshot, "" when there is none
RECURSIVE LatestOfTitles(_, _)
LatestOfTitles(titles, latest) ==
    IF titles = <<>> THEN latest
    ELSE LET lt == MetaOrEmpty(Head(titles).meta).last_time IN
         IF lt # "" /\ (latest = "" \/ TimeGreater(lt, latest))
         THEN LatestOfTitles(Tail(titles), lt)
         ELSE LatestOfTitles(Tail(titles), latest)

RECURSIVE LatestOfSnapshot(_, _)
LatestOfSnapshot(ti, latest) ==
    IF ti = <<>> THEN latest
    ELSE LatestOfSnapshot(Tail(ti), LatestOfTitles(Head(ti).titles, latest))

\* lines 77-84: int(ranks[-1]) when ranks is non-empty and parses
CurrentRank(meta) ==
    IF meta.ranks = <<>> THEN [ok |-> FALSE, v |-> 0]
    ELSE ParseInt(meta.ranks[Len(meta.ranks)])

\* groups.get(key): the index of the group of that key, 0 when there is none
GroupIndex(groups, key) ==
    IF \E i \in 1..Len(groups) : groups[i].key = key
    THEN CHOOSE i \in 1..Len(groups) : groups[i].key = key
    ELSE 0

InSeq(x, seq) == \E i \in 1..Len(seq) : seq[i] = x

\* lines 91-98: the group a first sighting creates
NewGroup(key, t, name, rank, meta) ==
    [key |-> key,
     title |-> t,
     platforms |-> <<name>>,
     platform_count |-> 1,
     best_rank |-> IF rank.ok THEN rank.v ELSE UnknownRank,
     url |-> meta.url,
     mobile_url |-> StrOr(meta.mobileUrl, meta.mobile_url)]

\* A variant that keeps the rank of the first sighting.
MergeKeepingFirstRank(g, t, name, rank, meta) ==
    LET fresh == ~InSeq(name, g.platforms) IN
    [key |-> g.key,
     title |-> IF Len(t) > Len(g.title) THEN t ELSE g.title,
     platforms |-> IF fresh THEN Append(g.platforms, name) ELSE g.platforms,
     platform_count |-> IF fresh THEN g.platform_count + 1 ELSE g.platform_count,
     best_rank |-> g.best_rank,
     url |-> StrOr(g.url, meta.url),
     mobile_url |-> StrOr(g.mobile_url, StrOr(meta.mobileUrl, meta.mobile_url))]

\* A variant that counts every sighting, also of a platform already listed.
MergeCountingEverySighting(g, t, name, rank, meta) ==
    [key |-> g.key,
     title |-> IF Len(t) > Len(g.title) THEN t ELSE g.title,
     platforms |-> Append(g.platforms, name),
     platform_count |-> g.platform_count + 1,
     best_rank |-> IF rank.ok /\ rank.v < g.best_rank THEN rank.v ELSE g.best_rank,
     url |-> StrOr(g.url, meta.url),
     mobile_url |-> StrOr(g.mobile_url, StrOr(meta.mobileUrl, meta.mobile_url))]

\* lines 100-111: a later sighting merged into its group
MergeIntoGroup(g, t, name, rank, meta) ==
    LET fresh == ~InSeq(name, g.platforms) IN
    [key |-> g.key,
     title |-> IF Len(t) > Len(g.title) THEN t ELSE g.title,
     platforms |-> IF fresh THEN Append(g.platforms, name) ELSE g.platforms,
     platform_count |-> IF fresh THEN g.platform_count + 1 ELSE g.platform_count,
     best_rank |-> IF rank.ok /\ rank.v < g.best_rank THEN rank.v ELSE g.best_rank,
     url |-> StrOr(g.url, meta.url),
     mobile_url |-> StrOr(g.mobile_url, StrOr(meta.mobileUrl, meta.mobile_url))]

\* line 74: "if not key" holds of the empty string only
KeyIsFalsy(key) == key = <<>>

\* lines 68-111: the titles of one platform
RECURSIVE GroupTitles(_, _, _, _, _)
GroupTitles(titles, name, latest, mode, groups) ==
    IF titles = <<>> THEN groups
    ELSE LET t == Head(titles).title
             meta == MetaOrEmpty(Head(titles).meta)
             rest == Tail(titles)
             key == _normalize_title(mode, t)
         IN IF meta.last_time # latest \/ KeyIsFalsy(key)
            THEN GroupTitles(rest, name, latest, mode, groups)
            ELSE LET rank == CurrentRank(meta)
                     i == GroupIndex(groups, key)
                 IN GroupTitles(rest, name, latest, mode,
                        IF i = 0
                        THEN Append(groups, NewGroup(key, t, name, rank, meta))
                        ELSE [groups EXCEPT
                                 ![i] = MergeIntoGroup(@, t, name, rank, meta)])

\* lines 66-111: every platform in turn
RECURSIVE GroupSnapshot(_, _, _, _, _)
GroupSnapshot(ti, id_to_name, latest, mode, groups) ==
    IF ti = <<>> THEN groups
    ELSE GroupSnapshot(Tail(ti), id_to_name, latest, mode,
             GroupTitles(Head(ti).titles, NameOf(id_to_name, Head(ti).pid),
                         latest, mode, groups))

\* [e for e in seq if P(e)] for the test of line 118
RECURSIVE FilterByCount(_, _)
FilterByCount(events, bound) ==
    IF events = <<>> THEN <<>>
    ELSE IF Head(events).platform_count >= bound
         THEN <<Head(events)>> \o FilterByCount(Tail(events), bound)
         ELSE FilterByCount(Tail(events), bound)

\* A variant without the fallback to the unfiltered groups.
FilterEventsNoFallback(events, min_platforms) ==
    FilterByCount(events, Max(min_platforms, 1))

\* lines 118-120
FilterEvents(events, min_platforms) ==
    LET filtered == FilterByCount(events, Max(min_platforms, 1)) IN
    IF filtered = <<>> /\ min_platforms > 1 THEN events ELSE filtered

\* A variant that sorts by platform_count alone.
SortEventsByCount(events) ==
    Unkeyed(SortPairs([i \in 1..Len(events) |->
                          [k |-> <<0 - events[i].platform_count>>,
                           x |-> events[i]]], <<>>))

\* line 123: filtered.sort(key=(-platform_count, best_rank))
SortEvents(events) ==
    Unkeyed(SortPairs([i \in 1..Len(events) |->
                          [k |-> <<0 - events[i].platform_count, events[i].best_rank>>,
                           x |-> events[i]]], <<>>))

\* lines 128-139: the HotEvent of a group
HotEvent(e) ==
    [title |-> e.title,
     platforms |-> e.platforms,
     platform_count |-> e.platform_count,
     best_rank |-> IF e.best_rank # UnknownRank THEN e.best_rank ELSE 0,
     url |-> e.url,
     mobile_url |-> e.mobile_url,
     ranks |-> IF e.best_rank # UnknownRank THEN <<e.best_rank>> ELSE <<>>]

\* line 127: filtered[: max(max_items, 0) or 0]
TruncateEvents(events, max_items) == FirstN(events, Max(max_items, 0))

build_hot_events(ti, a, mode) ==
    IF ti = <<>> THEN <<>>
    ELSE LET latest == LatestOfSnapshot(ti, "") IN
         IF latest = "" THEN <<>>
         ELSE LET events == GroupSnapshot(ti, a.id_to_name, latest, mode, <<>>) IN
              IF events = <<>> THEN <<>>
              ELSE LET cut == TruncateEvents(
                                  SortEvents(FilterEvents(events, a.min_platforms)),
                                  a.max_items)
                   IN [i \in 1..Len(cut) |-> HotEvent(cut[i])]

-----------------------------------------------------------------------------
(* shorturl.py: shorten_url and its cache; formatter.py: get_short_url *)

Tinyurl == <<"t", "i", "n", "y", "u", "r", "l">>

Isgd == <<"i", "s", "g", "d">>

Vgd == <<"v", "g", "d">>

\* lines 44-49: the service names shorten_url dispatches on
KnownServices == {Tinyurl, Isgd, Vgd}

\* line 39: f"{service}:{url}"
CacheKey(service, url) == service \o <<":">> \o url

\* _url_cache = {}
EmptyCache == <<>>

\* str.startswith
StartsWith(s, prefix) ==
    Len(s) >= Len(prefix) /\ SubSeq(s, 1, Len(prefix)) = prefix

Http == <<"h", "t", "t", "p">>

\* What requests.get does: it raises, or it returns a response with a
\* status code and a body.
RequestRaises == [raises |-> TRUE]

Response(status_code, text) ==
    [raises |-> FALSE, status_code |-> status_code, text |-> text]

\* lines 71-77, 87-93, 103-109: the body of the three _shorten_* functions
\* after the request; short_url is meaningful when ok, otherwise the
\* function returned None.
ShortenWith(resp) ==
    IF resp.raises THEN [raised |-> TRUE, ok |-> FALSE, short_url |-> <<>>]
    ELSE IF resp.status_code = 200 /\ StartsWith(Strip(resp.text), Http)
         THEN [raised |-> FALSE, ok |-> TRUE, short_url |-> Strip(resp.text)]
         ELSE [raised |-> FALSE, ok |-> FALSE, short_url |-> <<>>]

_shorten_tinyurl(url, resp) == ShortenWith(resp)

_shorten_isgd(url, resp) == ShortenWith(resp)

_shorten_vgd(url, resp) == ShortenWith(resp)

\* lines 21-61: resp is what the request gives if one is made.  The result
\* is the returned string, the cache after the call and whether a request
\* was made.
shorten_url(cache, url, service, resp) ==
    LET cache_key == CacheKey(service, url)
        unchanged(ret, requested) ==
            [ret |-> ret, cache |-> cache, requested |-> requested]
    IN IF url = <<>> THEN unchanged(url, FALSE)
       ELSE IF cache_key \in DOMAIN cache THEN unchanged(cache[cache_key], FALSE)
       ELSE IF service \notin KnownServices THEN unchanged(url, FALSE)
       ELSE LET r == IF service = Tinyurl THEN _shorten_tinyurl(url, resp)
                     ELSE IF service = Isgd THEN _shorten_isgd(url, resp)
                     ELSE _shorten_vgd(url, resp)
            IN IF r.raised THEN unchanged(url, TRUE)
               ELSE IF r.ok /\ r.short_url # <<>>
                    THEN [ret |-> r.short_url,
                          cache |-> (cache_key :> r.short_url) @@ cache,
                          requested |-> TRUE]
                    ELSE unchanged(url, TRUE)

\* formatter.py line 16: _shorturl_config = None
NoShorturlConfig == [none |-> TRUE]

\* a configuration dict; has_service tells whether it has the key "service"
ShorturlConfig(enabled, has_service, service) ==
    [none |-> FALSE, enabled |-> enabled,
     has_service |-> has_service, service |-> service]

\* formatter.py lines 29-52
get_short_url(config, cache, url, resp) ==
    IF url = <<>> THEN [ret |-> url, cache |-> cache, requested |-> FALSE]
    ELSE IF config.none \/ ~config.enabled
         THEN [ret |-> url, cache |-> cache, requested |-> FALSE]
         ELSE shorten_url(cache, url,
                          IF config.has_service THEN config.service ELSE Tinyurl,
                          resp)

-----------------------------------------------------------------------------
(* The variables a specification does not use stay at these values *)

NormIdle == title = <<>> /\ key1 = None /\ key2 = None

NoMetrics == [called |-> FALSE]

MetricsIdle == points = <<>> /\ window_points = 0 /\ metrics = NoMetrics

NotCalled == [status |-> "not called"]

NoArgs == [none |-> TRUE]

FocusIdle == focus_args = NoArgs /\ focus_result = NotCalled

SnapshotIdle == title_info = <<>>

HotNotCalled == [called |-> FALSE, events |-> <<>>]

HotIdle == hot_args = NoArgs /\ hot_result = HotNotCalled

NoShortCall == [fn |-> "none"]

ShortIdle ==
    /\ _url_cache = EmptyCache
    /\ _shorturl_config = NoShorturlConfig
    /\ short_call = NoShortCall

-----------------------------------------------------------------------------
(* SpecNorm: _normalize_title applied to a title, then to its own result *)

RECURSIVE StringsOfLen(_)
StringsOfLen(n) ==
    IF n = 0 THEN {<<>>}
    ELSE {Append(s, c) : s \in StringsOfLen(n - 1), c \in Alphabet}

Strings(n) == UNION {StringsOfLen(k) : k \in 0..n}

InitNorm ==
    /\ cleaner \in CleanerModes
    /\ title \in Strings(MaxTitleLen)
    /\ key1 = None
    /\ key2 = None
    /\ MetricsIdle
    /\ SnapshotIdle
    /\ FocusIdle
    /\ HotIdle
    /\ ShortIdle

NormalizeOnce ==
    /\ key1 = None
    /\ key1' = _normalize_title(cleaner, title)
    /\ UNCHANGED <<cleaner, title, key2, metricVars, title_info, focusVars, hotVars, shortVars>>

NormalizeAgain ==
    /\ key1 # None
    /\ key2 = None
    /\ key2' = _normalize_title(cleaner, key1)
    /\ UNCHANGED <<cleaner, title, key1, metricVars, title_info, focusVars, hotVars, shortVars>>

NextNorm == NormalizeOnce \/ NormalizeAgain

SpecNorm == InitNorm /\ [][NextNorm]_vars

\* C1: normalizing a normalized title changes nothing:
\* _normalize_title(_normalize_title(s)) = _normalize_title(s) for every s.
C1_NormalizeIdempotent == key2 # None => key2 = key1

-----------------------------------------------------------------------------
(* SpecMetrics: _calc_rising_metrics applied to a rank series *)

RECURSIVE SeqsOfLen(_, _)
SeqsOfLen(S, n) ==
    IF n = 0 THEN {<<>>}
    ELSE {Append(s, x) : s \in SeqsOfLen(S, n - 1), x \in S}

SeqsUpTo(S, n) == UNION {SeqsOfLen(S, k) : k \in 0..n}

InitMetrics ==
    /\ cleaner = "identity"
    /\ NormIdle
    /\ points \in SeqsUpTo(1..MaxRank, MaxPoints)
    /\ window_points \in -1..MaxWindow
    /\ metrics = NoMetrics
    /\ SnapshotIdle
    /\ FocusIdle
    /\ HotIdle
    /\ ShortIdle

CalcRisingMetrics ==
    /\ metrics = NoMetrics
    /\ metrics' = _calc_rising_metrics(points, window_points)
    /\ UNCHANGED <<cleaner, normVars, points, window_points, title_info, focusVars, hotVars, shortVars>>

NextMetrics == CalcRisingMetrics

SpecMetrics == InitMetrics /\ [][NextMetrics]_vars

\* the window the claim speaks of: the last window_used points
C8_Window == LastN(points, metrics.window_used)

\* C8: window_used is min(len(P), W) for W > 0 and len(P) for W <= 0;
\* total_improve is window[0] - window[-1] (0 under two points); improve_steps
\* is the number of adjacent pairs whose later point is strictly smaller, so
\* len(window) - 1 on a strictly decreasing window and nothing for ties.
C8_RisingMetrics ==
    metrics # NoMetrics =>
        LET w == C8_Window
            drops == {i \in 2..Len(w) : w[i] < w[i - 1]}
        IN /\ metrics.window_used =
                  (IF window_points > 0 THEN Min(Len(points), window_points)
                   ELSE Len(points))
           /\ metrics.total_improve = (IF Len(w) < 2 THEN 0 ELSE w[1] - w[Len(w)])
           /\ metrics.improve_steps = Cardinality(drops)
           /\ (\A i \in 2..Len(w) : w[i] < w[i - 1])
                  => metrics.improve_steps = Max(Len(w) - 1, 0)
           /\ (\A i \in 2..Len(w) : w[i] = w[i - 1]) => metrics.improve_steps = 0

\* a series longer than the window, with a tie and a drop inside the window
C8_Witness ==
    /\ metrics # NoMetrics
    /\ window_points > 0
    /\ Len(points) > window_points
    /\ metrics.window_used >= 3
    /\ metrics.improve_steps = 1
    /\ \E i \in 2..Len(C8_Window) : C8_Window[i] = C8_Window[i - 1]

-----------------------------------------------------------------------------
(* SpecFocus: build_douyin_focus applied to a snapshot *)

Douyin == "douyin"

\* the i-th of the distinct titles "g", "gg", "ggg", ...
TitleNo(i) == [j \in 1..i |-> "g"]

Timeline(pts) == [i \in 1..Len(pts) |-> RankEntry(IntVal(pts[i]))]

DefaultArgs ==
    [id_to_name |-> [p \in {Douyin} |-> "Douyin"],
     has_matcher |-> FALSE, has_loader |-> FALSE,
     config |-> [word_groups_is_none |-> FALSE,
                 word_groups |-> << <<"w">> >>, filter_words |-> <<>>,
                 global_filters |-> << <<"x">> >>],
     extra_keywords |-> <<>>, must_keywords |-> <<>>,
     allow_unfiltered_hot |-> FALSE,
     max_hot_items |-> 0, max_rising_items |-> 0,
     min_rank_improve |-> 2, min_total_improve |-> 1,
     min_consecutive_improve |-> 1,
     max_rank |-> 3, trend_points |-> 2, rising_window_points |-> 2,
     platform_id |-> Douyin]

\* Snapshots that vary the rank series: every title is in the latest batch
\* and carries a well-formed rank_timeline of two points.
RankSeries == SeqsOfLen(1..3, 2)

RankTitleLists ==
    UNION {{[i \in 1..n |-> [title |-> TitleNo(i),
                             meta |-> Meta("t2", Timeline(ss[i]), <<>>, "", "", "")]]
            : ss \in SeqsOfLen(RankSeries, n)} : n \in 0..MaxRankTitles}

RankArgs ==
    {[DefaultArgs EXCEPT !.max_hot_items = mh, !.max_rising_items = mr,
                         !.min_rank_improve = mi]
     : mh \in 0..2, mr \in 0..1, mi \in 1..2}

\* Snapshots that vary the shape of the metadata.
DataMetas ==
    {NullMeta,
     EmptyMeta,
     Meta("t2", <<NotAMapping>>, <<>>, "", "", ""),
     Meta("t2", <<NoRankEntry, RankEntry(IntVal(1))>>, <<>>, "u", "", "m"),
     Meta("t2", <<RankEntry(StrVal("x")), RankEntry(StrVal("2"))>>, <<>>, "", "m", ""),
     Meta("t2", <<RankEntry(NoneVal)>>, <<StrVal("x"), IntVal(3)>>, "", "", ""),
     Meta("", <<RankEntry(IntVal(1))>>, <<>>, "", "", ""),
     Meta("t1", <<RankEntry(IntVal(2))>>, <<>>, "", "", ""),
     Meta("t2", <<RankEntry(IntVal(0))>>, <<>>, "", "", ""),
     Meta("t2", <<>>, <<IntVal(1), IntVal(4)>>, "", "", ""),
     Meta("t2", <<RankEntry(IntVal(3)), RankEntry(IntVal(1))>>, <<>>, "u", "m", "")}

DataTitleLists ==
    UNION {{[i \in 1..n |-> [title |-> TitleNo(i), meta |-> ms[i]]]
            : ms \in SeqsOfLen(DataMetas, n)} : n \in 0..MaxDataTitles}

DataArgs ==
    {[DefaultArgs EXCEPT !.allow_unfiltered_hot = au, !.must_keywords = mk]
     : au \in BOOLEAN, mk \in {<<>>, << <<"g">> >>}}

\* Snapshots that vary the titles and the batch under every keyword
\* configuration. "g" is the must-keyword, "x" the global
\* filter, "w" the word of the keyword group, "e" the extra keyword.
FilterTitles ==
    {<<"g">>, <<"g", "x">>, <<"g", "w">>, <<"w">>, <<"g", "e">>, <<"n">>}

FilterMetas ==
    {Meta("t2", Timeline(<<1>>), <<>>, "", "", ""),
     Meta("t1", Timeline(<<3, 2>>), <<>>, "", "", "")}

FilterEntries == {[title |-> t, meta |-> m] : t \in FilterTitles, m \in FilterMetas}

FilterTitleLists ==
    UNION {{es \in SeqsOfLen(FilterEntries, n) :
               \A i, j \in 1..n : i # j => es[i].title # es[j].title}
           : n \in 0..MaxFilterTitles}

FilterArgs ==
    {[DefaultArgs EXCEPT !.has_matcher = hm, !.has_loader = hl,
                         !.must_keywords = mk, !.extra_keywords = ek,
                         !.allow_unfiltered_hot = au]
     : hm \in BOOLEAN, hl \in BOOLEAN, mk \in {<<>>, << <<"g">> >>},
       ek \in {<<>>, << <<" ">>, <<"e">> >>}, au \in BOOLEAN}
    \cup
    \* a loader that returns None for the word groups
    {[DefaultArgs EXCEPT !.has_matcher = TRUE, !.has_loader = TRUE,
                         !.config.word_groups_is_none = TRUE,
                         !.config.word_groups = <<>>,
                         !.extra_keywords = ek, !.allow_unfiltered_hot = au]
     : ek \in {<<>>, << <<" ">>, <<"e">> >>}, au \in BOOLEAN}

\* title_info with the platform's titles; without titles also the empty
\* snapshot and a snapshot holding another platform only
Snapshots(title_lists) ==
    {<<[pid |-> Douyin, titles |-> ts]>> : ts \in title_lists}
        \cup {<<>>, <<[pid |-> "other", titles |-> <<>>]>>}

InitFocus ==
    /\ cleaner = "identity"
    /\ NormIdle
    /\ MetricsIdle
    /\ \/ title_info \in Snapshots(RankTitleLists) /\ focus_args \in RankArgs
       \/ title_info \in Snapshots(DataTitleLists) /\ focus_args \in DataArgs
       \/ title_info \in Snapshots(FilterTitleLists) /\ focus_args \in FilterArgs
    /\ focus_result = NotCalled
    /\ HotIdle
    /\ ShortIdle

BuildDouyinFocus ==
    /\ focus_result = NotCalled
    /\ focus_result' = build_douyin_focus(title_info, focus_args)
    /\ UNCHANGED <<cleaner, normVars, metricVars, title_info, focus_args, hotVars, shortVars>>

NextFocus == BuildDouyinFocus

SpecFocus == InitFocus /\ [][NextFocus]_vars

Returned == focus_result.status = "returned" /\ ~focus_result.empty

InList(item, items) == \E j \in 1..Len(items) : items[j] = item

\* C3: no malformed per-title data (a null meta, a rank_timeline entry that is
\* no mapping or lacks rank, an unparsable rank, an absent last_time) makes
\* build_douyin_focus end in an error: the call always returns a result.
C3_NeverRaises == focus_result.status # "raised"

\* C4 as claimed: every item of rising also appears in hot, whatever
\* max_hot_items and max_rising_items are.
C4_RisingSubsetOfHot ==
    Returned =>
        \A i \in 1..Len(focus_result.rising) :
            InList(focus_result.rising[i], focus_result.hot)

\* C4 as amended: an item of rising appears in hot unless max_hot_items cut
\* the hot list (max_hot_items > 0 and len(hot) = max_hot_items), and a rising
\* item missing from hot then ranks no better than every item kept in hot.
C4_RisingWithinUncutHot ==
    Returned =>
        \A i \in 1..Len(focus_result.rising) :
            \/ InList(focus_result.rising[i], focus_result.hot)
            \/ /\ focus_args.max_hot_items > 0
               /\ Len(focus_result.hot) = focus_args.max_hot_items
               /\ \A j \in 1..Len(focus_result.hot) :
                      focus_result.hot[j].rank <= focus_result.rising[i].rank

\* a result whose rising list holds an item kept in hot and an item cut from it
C4_Witness ==
    /\ Returned
    /\ \E i, j \in 1..Len(focus_result.rising) :
           /\ InList(focus_result.rising[i], focus_result.hot)
           /\ ~InList(focus_result.rising[j], focus_result.hot)

\* C9: hot is non-decreasing in rank; rising is non-increasing in delta and,
\* among equal deltas, in ascending rank order; after truncation and in both
\* the strict and the relaxed pass.
C9_ListsSorted ==
    Returned =>
        /\ \A i \in 1..(Len(focus_result.hot) - 1) :
               focus_result.hot[i].rank <= focus_result.hot[i + 1].rank
        /\ \A i \in 1..(Len(focus_result.rising) - 1) :
               LET x == focus_result.rising[i]
                   y == focus_result.rising[i + 1]
               IN /\ x.delta >= y.delta
                  /\ x.delta = y.delta => x.rank <= y.rank

\* three rising items, two of equal delta and different rank, that the
\* snapshot lists in another order than the result
C9_Witness ==
    /\ Returned
    /\ Len(focus_result.rising) = 3
    /\ focus_result.rising[1].delta > focus_result.rising[2].delta
    /\ focus_result.rising[2].delta = focus_result.rising[3].delta
    /\ focus_result.rising[2].rank < focus_result.rising[3].rank
    /\ focus_result.rising[1].title = TitleNo(3)
    /\ focus_result.rising[3].title = TitleNo(1)
    /\ focus_result.hot[1].title = TitleNo(2)

\* the titles a result emits, in hot or in rising
EmittedTitles ==
    {focus_result.hot[i].title : i \in 1..Len(focus_result.hot)}
        \cup {focus_result.rising[i].title : i \in 1..Len(focus_result.rising)}

\* C10: the whitelist and global-filter checks apply to every emitted item, in
\* both passes and also when no keyword matcher is supplied: no emitted title
\* contains a global filter of the configuration the loader supplies, and with
\* must-keywords every emitted title contains one.
C10_FiltersAlwaysApply ==
    Returned =>
        \A t \in EmittedTitles :
            /\ focus_args.has_loader =>
                   ~ContainsAny(t, focus_args.config.global_filters)
            /\ focus_args.must_keywords # <<>> =>
                   ContainsAny(t, focus_args.must_keywords)

\* the platform's entries (title, meta) of the snapshot
PlatformEntries ==
    LET titles == TitlesOf(title_info, focus_args.platform_id)
    IN {titles[i] : i \in 1..Len(titles)}

\* the greatest last_time among the platform's entries
PlatformLatest ==
    LET times == {e.meta.last_time : e \in PlatformEntries} \ {""}
    IN CHOOSE lt \in times : \A o \in times : ~TimeGreater(o, lt)

EntryOf(t) == CHOOSE e \in PlatformEntries : e.title = t

\* the items of both returned lists
EmittedItems ==
    {focus_result.hot[i] : i \in 1..Len(focus_result.hot)}
        \cup {focus_result.rising[i] : i \in 1..Len(focus_result.rising)}

\* the title passed the keyword match: the injected predicate was asked with
\* loaded word groups and held, or the title contains an extra keyword
KeywordMatched(t) ==
    \/ /\ focus_args.has_matcher /\ focus_args.has_loader
       /\ ~focus_args.config.word_groups_is_none
       /\ matches_word_groups_func(t, focus_args.config.word_groups,
                                   focus_args.config.filter_words,
                                   focus_args.config.global_filters)
    \/ ContainsAny(t, CleanKeywords(focus_args.extra_keywords))

\* the titles the relaxed pass collects: neither the batch nor the keyword
\* match is asked for, the other filters and the rank bounds are
RelaxedTitles ==
    LET cfg == LoadedConfig(focus_args)
        must == CleanKeywords(focus_args.must_keywords)
    IN {e.title : e \in
           {e \in PlatformEntries :
               /\ ~ContainsAny(e.title, cfg.global_filters)
               /\ must # <<>> => ContainsAny(e.title, must)
               /\ LET pts == _extract_rank_points(e.meta).value
                  IN /\ pts # <<>>
                     /\ pts[Len(pts)] \in 1..focus_args.max_rank}}

\* what C12 says whatever the keyword configuration: the relaxed pass is used
\* only as the fallback, and then fills both lists; a strict result holds
\* latest-batch items only; every rank is within 1..max_rank
PassDiscipline ==
    LET strict == collect_items(title_info, focus_args, LoadedConfig(focus_args),
                                PlatformLatest, TRUE, TRUE)
    IN /\ focus_result.pass = "relaxed" =>
              /\ focus_args.allow_unfiltered_hot
              /\ strict.hot = <<>>
              /\ EmittedTitles \subseteq RelaxedTitles
              /\ focus_args.max_hot_items <= 0 =>
                     {focus_result.hot[i].title : i \in 1..Len(focus_result.hot)}
                         = RelaxedTitles
       /\ focus_result.pass = "strict" =>
              \A item \in EmittedItems :
                  EntryOf(item.title).meta.last_time = PlatformLatest
       /\ \A item \in EmittedItems : item.rank \in 1..focus_args.max_rank

\* C12 as stated: the relaxed pass (no keyword match, no latest-only rule) is
\* used only when allow_unfiltered_hot is set and the strict pass left hot
\* empty, and then hot and rising both come from it; otherwise every emitted
\* item is of the latest batch, has a rank in 1..max_rank and, when a matcher
\* is supplied, passed the keyword match.
C12_StrictUnlessFallback ==
    Returned =>
        /\ PassDiscipline
        /\ (focus_result.pass = "strict" /\ focus_args.has_matcher) =>
               \A item \in EmittedItems : KeywordMatched(item.title)

\* C12, amended: as above, with the keyword match promised only when the
\* matcher and the loader are both supplied and the loader returned word
\* groups (not None); otherwise the keyword match is bypassed.
C12_StrictUnlessFallbackLoaded ==
    Returned =>
        /\ PassDiscipline
        /\ (/\ focus_result.pass = "strict"
            /\ focus_args.has_matcher /\ focus_args.has_loader
            /\ ~focus_args.config.word_groups_is_none) =>
               \A item \in EmittedItems : KeywordMatched(item.title)

\* the fallback ran with a loaded matcher and emitted a title that is neither
\* of the latest batch nor a keyword match
C12_Witness ==
    /\ Returned
    /\ focus_result.pass = "relaxed"
    /\ focus_args.has_matcher /\ focus_args.has_loader
    /\ ~focus_args.config.word_groups_is_none
    /\ \E item \in EmittedItems :
           /\ EntryOf(item.title).meta.last_time # PlatformLatest
           /\ ~KeywordMatched(item.title)

-----------------------------------------------------------------------------
(* SpecHot: build_hot_events applied to a snapshot *)

\* the platforms in the order the snapshot lists them: "p1", "p2", ...
Pid(i) == "p" \o ToString(i)

\* the snapshots of n sightings drawn from entries: each sighting opens a new
\* platform or joins the last one under a title that platform does not hold yet
RECURSIVE SnapshotsOfSize(_, _)
SnapshotsOfSize(entries, n) ==
    IF n = 0 THEN {<<>>}
    ELSE LET prev == SnapshotsOfSize(entries, n - 1)
             joinable == {pe \in prev \X entries :
                             /\ pe[1] # <<>>
                             /\ \A i \in 1..Len(pe[1][Len(pe[1])].titles) :
                                    pe[1][Len(pe[1])].titles[i].title # pe[2].title}
         IN {Append(ti, [pid |-> Pid(Len(ti) + 1), titles |-> <<e>>])
                : ti \in prev, e \in entries}
            \cup {[pe[1] EXCEPT ![Len(pe[1])].titles = Append(@, pe[2])]
                     : pe \in joinable}

SnapshotsUpTo(entries, n) == UNION {SnapshotsOfSize(entries, k) : k \in 0..n}

\* id_to_name: no entry (a platform is shown under its id), or the first two
\* platforms under one display name
NoNames == [p \in {} |-> ""]

SharedName == [p \in {Pid(1), Pid(2)} |-> "X"]

\* Snapshots that vary the titles and the platforms: "a" and "A-" share the
\* key "a", "- -" normalizes to " ", and a title is in the latest batch "t2"
\* or, for "a", in the batch before.
ClusterTitles == {<<"a">>, <<"A", "-">>, <<"b">>, <<"-", " ", "-">>}

ClusterEntries ==
    {[title |-> t, meta |-> Meta("t2", <<>>, <<IntVal(2), IntVal(1)>>, "u", "", "")]
        : t \in ClusterTitles}
    \cup {[title |-> <<"a">>, meta |-> Meta("t1", <<>>, <<IntVal(1)>>, "", "", "")]}

ClusterArgs ==
    {[id_to_name |-> n, max_items |-> mi, min_platforms |-> mp]
     : n \in {NoNames, SharedName}, mi \in 0..2, mp \in 1..3}

\* Snapshots that vary the ranks: every title is in the latest batch, and "-"
\* normalizes to the empty key.
RankedTitles == {<<"a">>, <<"A", "-">>, <<"b">>, <<"-">>}

RankedMetas ==
    {Meta("t2", <<>>, <<IntVal(2), IntVal(1)>>, "", "m", ""),
     Meta("t2", <<>>, <<IntVal(1), IntVal(2)>>, "u", "", "m"),
     Meta("t2", <<>>, <<>>, "", "", ""),
     Meta("t2", <<>>, <<IntVal(1), StrVal("x")>>, "", "", "")}

RankedEntries ==
    {[title |-> t, meta |-> m] : t \in RankedTitles, m \in RankedMetas}

RankedArgs ==
    {[id_to_name |-> NoNames, max_items |-> mi, min_platforms |-> mp]
     : mi \in {1, 3}, mp \in 0..2}

\* Snapshots with ranks at and above 9999, the value line 95 gives a group
\* without a rank: every title is in the latest batch and has the key "a".
SentinelEntries ==
    {[title |-> t, meta |-> Meta("t2", <<>>, rk, "", "", "")]
        : t \in {<<"a">>, <<"A", "-">>},
          rk \in {<<>>, <<IntVal(1)>>, <<IntVal(UnknownRank)>>,
                  <<IntVal(UnknownRank + 1)>>}}

SentinelArgs == {[id_to_name |-> NoNames, max_items |-> 1, min_platforms |-> 1]}

InitHot ==
    /\ NormIdle
    /\ MetricsIdle
    /\ FocusIdle
    /\ ShortIdle
    /\ \/ /\ cleaner \in CleanerModes
          /\ title_info \in SnapshotsUpTo(ClusterEntries, MaxClusterSightings)
          /\ hot_args \in ClusterArgs
       \/ /\ cleaner = "collapse"
          /\ title_info \in SnapshotsUpTo(RankedEntries, MaxRankSightings)
          /\ hot_args \in RankedArgs
       \/ /\ cleaner = "collapse"
          /\ title_info \in SnapshotsUpTo(SentinelEntries, MaxRankSightings)
          /\ hot_args \in SentinelArgs
       \/ /\ cleaner = "collapse"
          /\ title_info \in {<<[pid |-> Pid(1),
                               titles |-> <<[title |-> <<"a">>, meta |-> NullMeta]>>]>>}
          /\ hot_args \in RankedArgs
    /\ hot_result = HotNotCalled

BuildHotEvents ==
    /\ ~hot_result.called
    /\ hot_result' = [called |-> TRUE,
                      events |-> build_hot_events(title_info, hot_args, cleaner)]
    /\ UNCHANGED <<cleaner, normVars, metricVars, title_info, focusVars, hot_args, shortVars>>

NextHot == BuildHotEvents

SpecHot == InitHot /\ [][NextHot]_vars

\* The latest batch as the claims speak of it, read off the snapshot: every
\* (platform, title) of the snapshot with its display name and its key.
Sightings ==
    UNION {{[pid |-> title_info[i].pid,
             name |-> NameOf(hot_args.id_to_name, title_info[i].pid),
             title |-> title_info[i].titles[j].title,
             key |-> _normalize_title(cleaner, title_info[i].titles[j].title),
             last_time |-> MetaOrEmpty(title_info[i].titles[j].meta).last_time]
            : j \in 1..Len(title_info[i].titles)} : i \in 1..Len(title_info)}

LatestSightings ==
    LET all == Sightings
        timed == {s \in all : s.last_time # ""}
    IN {s \in timed : \A x \in timed : ~TimeGreater(x.last_time, s.last_time)}

KeyOf(t) == _normalize_title(cleaner, t)

\* the keys of the sightings ls that are not the empty string
KeysOf(ls) == {s.key : s \in ls} \ {<<>>}

PidsOfKey(ls, k) == {s.pid : s \in {x \in ls : x.key = k}}

NamesOfKey(ls, k) == {s.name : s \in {x \in ls : x.key = k}}

\* the keys of the emitted events, in order
EventKeys == [i \in 1..Len(hot_result.events) |-> KeyOf(hot_result.events[i].title)]

Occurrences(x, seq) == Cardinality({i \in 1..Len(seq) : seq[i] = x})

\* an event that counts two platforms, each of the names exactly once
CountsTwoPlatforms(e, names) ==
    /\ e.platform_count = 2
    /\ \A n \in names : Occurrences(n, e.platforms) = 1

\* C2 as claimed: a key that the latest batch holds on two platforms always
\* yields exactly one HotEvent, with platform_count 2 and each of the two
\* platform names exactly once.
C2_TwoPlatformsOneEvent ==
    hot_result.called =>
        LET ls == LatestSightings
            ek == EventKeys
        IN \A k \in {s.key : s \in ls} :
               Cardinality(PidsOfKey(ls, k)) = 2 =>
                   /\ Occurrences(k, ek) = 1
                   /\ \A i \in 1..Len(ek) :
                          ek[i] = k =>
                              /\ hot_result.events[i].platform_count = 2
                              /\ \A p \in PidsOfKey(ls, k) :
                                     Occurrences(NameOf(hot_args.id_to_name, p),
                                                 hot_result.events[i].platforms) = 1

\* C2 as amended: a non-empty key that the latest batch holds on exactly two
\* platforms of different display names yields at most one HotEvent, which
\* has platform_count 2 and each of the two names exactly once; it yields
\* exactly one when min_platforms <= 2 and max_items is at least the number of
\* non-empty keys of the latest batch.
C2_TwoPlatformsAtMostOneEvent ==
    hot_result.called =>
        LET ls == LatestSightings
            ek == EventKeys
            keys == KeysOf(ls)
        IN \A k \in keys :
               (/\ Cardinality(PidsOfKey(ls, k)) = 2
                /\ Cardinality(NamesOfKey(ls, k)) = 2) =>
                   /\ Occurrences(k, ek) <= 1
                   /\ \A i \in 1..Len(ek) :
                          ek[i] = k => CountsTwoPlatforms(hot_result.events[i],
                                                          NamesOfKey(ls, k))
                   /\ (/\ hot_args.min_platforms <= 2
                       /\ hot_args.max_items >= Cardinality(keys))
                          => Occurrences(k, ek) = 1

\* a key on two platforms, one of which lists it under two raw titles, emitted
\* as one event of two platforms
C2_Witness ==
    /\ hot_result.called
    /\ Len(title_info) = 2
    /\ LET ls == LatestSightings
           ek == EventKeys
       IN /\ Cardinality(ls) = 3
          /\ \E k \in KeysOf(ls) :
                 /\ Cardinality(PidsOfKey(ls, k)) = 2
                 /\ Cardinality(NamesOfKey(ls, k)) = 2
                 /\ \A s \in ls : s.key = k
                 /\ \E i \in 1..Len(ek) :
                        /\ ek[i] = k
                        /\ CountsTwoPlatforms(hot_result.events[i], NamesOfKey(ls, k))

\* C5 as claimed: the events are ordered by platform_count descending and,
\* among equal platform_count, by the emitted best_rank ascending.
C5_SortedByEmittedRank ==
    hot_result.called =>
        \A i \in 1..(Len(hot_result.events) - 1) :
            LET x == hot_result.events[i]
                y == hot_result.events[i + 1]
            IN \/ x.platform_count > y.platform_count
               \/ /\ x.platform_count = y.platform_count
                  /\ x.best_rank <= y.best_rank

\* the rank an event is ordered by: its best_rank, and 9999 when its rank is
\* unknown (emitted as best_rank 0 with empty ranks)
OrderingRank(e) == IF e.ranks = <<>> THEN UnknownRank ELSE e.best_rank

\* C5 as amended: the events are ordered by platform_count descending and,
\* among equal platform_count, by best_rank ascending with an event of unknown
\* rank (emitted best_rank 0, ranks empty) ordered as if its best_rank were 9999.
C5_SortedByOrderingRank ==
    hot_result.called =>
        \A i \in 1..(Len(hot_result.events) - 1) :
            LET x == hot_result.events[i]
                y == hot_result.events[i + 1]
            IN \/ x.platform_count > y.platform_count
               \/ /\ x.platform_count = y.platform_count
                  /\ OrderingRank(x) <= OrderingRank(y)

\* two events of one platform each: a known rank, then the unknown rank,
\* listed by the snapshot in the opposite order
C5_Witness ==
    /\ hot_result.called
    /\ Len(hot_result.events) = 2
    /\ hot_result.events[1].best_rank = 2
    /\ hot_result.events[2].ranks = <<>>
    /\ hot_result.events[2].best_rank = 0
    /\ hot_result.events[2].platforms = <<Pid(1)>>
    /\ hot_result.events[1].platforms = <<Pid(2)>>

\* C6: only groups with platform_count >= max(min_platforms, 1) are kept; when
\* none meets that bound and min_platforms > 1 the unfiltered groups are
\* returned; so the output is non-empty whenever a latest-batch title has a
\* key and max_items > 0, and no event below the bound is emitted whenever
\* some group meets it.
C6_FilterWithFallback ==
    hot_result.called =>
        LET ls == LatestSightings
            ek == EventKeys
            keys == KeysOf(ls)
            bound == Max(hot_args.min_platforms, 1)
            meeting == {k \in keys : Cardinality(NamesOfKey(ls, k)) >= bound}
            kept == IF meeting # {} THEN meeting ELSE keys
            events == hot_result.events
        IN /\ \A i \in 1..Len(events) : ek[i] \in kept
           /\ Len(events) = Min(Max(hot_args.max_items, 0), Cardinality(kept))
           /\ meeting # {} =>
                  \A i \in 1..Len(events) : events[i].platform_count >= bound
           /\ (keys # {} /\ hot_args.max_items > 0) => events # <<>>

\* min_platforms = 3 over groups of at most two platforms: the unfiltered
\* groups are returned
C6_Witness ==
    /\ hot_result.called
    /\ hot_args.min_platforms = 3
    /\ Len(hot_result.events) = 2
    /\ hot_result.events[1].platform_count = 2
    /\ hot_result.events[2].platform_count = 1

\* C7: a title whose normalized key is empty or only whitespace is excluded
\* from clustering: no event is emitted for it.
C7_BlankKeysExcluded ==
    hot_result.called =>
        \A i \in 1..Len(hot_result.events) :
            Strip(KeyOf(hot_result.events[i].title)) # <<>>

\* the latest-batch sightings with the current rank the code reads off each
RankedSightings ==
    LET all == UNION {{[key |-> _normalize_title(cleaner, title_info[i].titles[j].title),
                        last_time |-> MetaOrEmpty(title_info[i].titles[j].meta).last_time,
                        rank |-> CurrentRank(MetaOrEmpty(title_info[i].titles[j].meta))]
                       : j \in 1..Len(title_info[i].titles)} : i \in 1..Len(title_info)}
        timed == {s \in all : s.last_time # ""}
    IN {s \in timed : \A x \in timed : ~TimeGreater(x.last_time, s.last_time)}

\* the defined current ranks of the sightings rs that carry the key k
DefinedRanks(rs, k) == {s.rank.v : s \in {x \in rs : x.key = k /\ x.rank.ok}}

MinOf(S) == CHOOSE m \in S : \A x \in S : m <= x

\* best_rank and ranks of the event e are what the defined ranks d call for
RanksAsMerged(e, d) ==
    IF d = {}
    THEN e.best_rank = 0 /\ e.ranks = <<>>
    ELSE e.best_rank = MinOf(d) /\ e.ranks = <<MinOf(d)>>

\* C13 as claimed: every emitted event carries as best_rank the smallest
\* defined current rank of the latest-batch sightings merged into it, in
\* whatever order the snapshot lists them, with ranks = [best_rank]; it carries
\* best_rank 0 and empty ranks exactly when none of them has a defined rank.
C13_BestRankIsSmallest ==
    hot_result.called =>
        LET rs == RankedSightings IN
        \A i \in 1..Len(hot_result.events) :
            RanksAsMerged(hot_result.events[i],
                          DefinedRanks(rs, KeyOf(hot_result.events[i].title)))

\* C13, amended: the same of every emitted event all of whose merged
\* sightings have their defined ranks below 9999, the value that stands for
\* "no rank" while the groups are built.
C13_BestRankIsSmallestBelowSentinel ==
    hot_result.called =>
        LET rs == RankedSightings IN
        \A i \in 1..Len(hot_result.events) :
            LET d == DefinedRanks(rs, KeyOf(hot_result.events[i].title)) IN
            (\A r \in d : r < UnknownRank) => RanksAsMerged(hot_result.events[i], d)

\* an event merged from two platforms whose first sighting has rank 2 and
\* whose second has rank 1
C13_Witness ==
    /\ hot_result.called
    /\ Len(title_info) = 2
    /\ CurrentRank(title_info[1].titles[1].meta) = [ok |-> TRUE, v |-> 2]
    /\ CurrentRank(title_info[2].titles[1].meta) = [ok |-> TRUE, v |-> 1]
    /\ Len(hot_result.events) = 1
    /\ hot_result.events[1].platform_count = 2
    /\ hot_result.events[1].best_rank = 1
    /\ hot_result.events[1].ranks = <<1>>

-----------------------------------------------------------------------------
(* SpecShort: calls of shorten_url, get_short_url, set_shorturl_config and *)
(* clear_cache in any order, each request answered in any way              *)

\* "a:b" holds the separator of the cache key
ShortUrls == {<<>>, <<"b">>, <<"a", ":", "b">>}

\* the three known services, an unknown one, and an unknown one whose name
\* continues a known name with the separator
ShortServices == KnownServices \cup {<<"z">>, Tinyurl \o <<":", "a">>}

\* a raised request, two good answers (one padded with whitespace), a body
\* that is no URL, an empty body, and a good body under a bad status
Responses ==
    {RequestRaises,
     Response(200, Http \o <<"1">>),
     Response(200, <<" ">> \o Http \o <<"2">> \o <<"\t">>),
     Response(200, <<"e">>),
     Response(200, <<>>),
     Response(500, Http \o <<"1">>)}

ShorturlConfigs ==
    {NoShorturlConfig,
     ShorturlConfig(FALSE, TRUE, Isgd),
     ShorturlConfig(TRUE, FALSE, <<>>),
     ShorturlConfig(TRUE, TRUE, Isgd),
     ShorturlConfig(TRUE, TRUE, <<"z">>)}

InitShort ==
    /\ cleaner = "identity"
    /\ NormIdle
    /\ MetricsIdle
    /\ SnapshotIdle
    /\ FocusIdle
    /\ HotIdle
    /\ ShortIdle

NoRequest == [made |-> FALSE]

\* the record of a call that went through shorten_url
ShortCall(fn, url, service, resp, r) ==
    [fn |-> fn, url |-> url, service |-> service, delegated |-> TRUE,
     requested |-> r.requested,
     resp |-> IF r.requested THEN resp ELSE NoRequest,
     before |-> _url_cache, ret |-> r.ret]

ShortenUrl ==
    \E url \in ShortUrls, service \in ShortServices, resp \in Responses :
        LET r == shorten_url(_url_cache, url, service, resp) IN
        /\ Cardinality(DOMAIN r.cache) <= MaxCached
        /\ _url_cache' = r.cache
        /\ short_call' = ShortCall("shorten_url", url, service, resp, r)
        /\ UNCHANGED <<cleaner, normVars, metricVars, title_info, focusVars,
                       hotVars, _shorturl_config>>

GetShortUrl ==
    \E url \in ShortUrls, resp \in Responses :
        LET config == _shorturl_config
            r == get_short_url(config, _url_cache, url, resp)
            delegated == url # <<>> /\ ~config.none /\ config.enabled
            service == IF config.has_service THEN config.service ELSE Tinyurl
        IN /\ Cardinality(DOMAIN r.cache) <= MaxCached
           /\ _url_cache' = r.cache
           /\ short_call' =
                  IF delegated
                  THEN ShortCall("get_short_url", url, service, resp, r)
                  ELSE [fn |-> "get_short_url", url |-> url, delegated |-> FALSE,
                        requested |-> FALSE, resp |-> NoRequest,
                        before |-> _url_cache, ret |-> r.ret]
           /\ UNCHANGED <<cleaner, normVars, metricVars, title_info, focusVars,
                          hotVars, _shorturl_config>>

\* formatter.py lines 19-26
SetShorturlConfig ==
    \E config \in ShorturlConfigs :
        /\ config # _shorturl_config
        /\ _shorturl_config' = config
        /\ UNCHANGED <<cleaner, normVars, metricVars, title_info, focusVars,
                       hotVars, _url_cache, short_call>>

\* shorturl.py lines 112-116
ClearCache ==
    /\ _url_cache' = EmptyCache
    /\ short_call' = [fn |-> "clear_cache", before |-> _url_cache]
    /\ UNCHANGED <<cleaner, normVars, metricVars, title_info, focusVars,
                   hotVars, _shorturl_config>>

NextShort == ShortenUrl \/ GetShortUrl \/ SetShorturlConfig \/ ClearCache

SpecShort == InitShort /\ [][NextShort]_vars

\* the last call was one of shorten_url, made directly or by get_short_url
ShortenCalled ==
    short_call.fn \in {"shorten_url", "get_short_url"} /\ short_call.delegated

\* the shortening of the last call failed in one of the four ways: the
\* request raised, the status was not 200, the body (trimmed, as the code
\* reads it) did not start with "http", or the service name is unknown
ShorteningFailed ==
    \/ short_call.service \notin KnownServices
    \/ /\ short_call.requested
       /\ \/ short_call.resp.raises
          \/ short_call.resp.status_code # 200
          \/ ~StartsWith(Strip(short_call.resp.text), Http)

\* C11: whenever shortening fails (the request raises, the status is not
\* 200, the body does not start with "http", or the service name is unknown)
\* shorten_url returns its input url and leaves the cache unchanged; the
\* cache changes only by storing the result of a successful shortening; a
\* call whose (service, url) is cached returns the stored value and leaves
\* the cache unchanged; clear_cache empties the cache.
C11_DegradesToInput ==
    /\ ShortenCalled =>
           LET c == short_call
               cache_key == CacheKey(c.service, c.url)
           IN /\ ShorteningFailed =>
                     c.ret = c.url /\ _url_cache = c.before
              /\ _url_cache # c.before =>
                     /\ c.requested /\ ~ShorteningFailed
                     /\ _url_cache = (cache_key :> c.ret) @@ c.before
              /\ (c.service \in KnownServices /\ cache_key \in DOMAIN c.before) =>
                     c.ret = c.before[cache_key] /\ _url_cache = c.before
    /\ short_call.fn = "clear_cache" => _url_cache = EmptyCache

====
